---- MODULE Spec2Model ----
(***************************************************************************)
(* Model of src/VNA_TDR.py: the VNA_TDR configuration object, its setters, *)
(* and the three transforms bandpass, lowpass_impulse and lowpass_step.    *)
(*                                                                         *)
(* Numbers: a real is a pair <<n, d>> with d > 0 (the rational n/d); a     *)
(* complex sample is a pair <<re, im>> of integers.  Python strings are    *)
(* sequences of character codes, so that str.lower() is computed.          *)
(* numpy.kaiser and czt.freq2time are external: the window is kept as the  *)
(* pair <<length, Beta>> it is built from, and the kernel either raises or *)
(* returns an arbitrary complex sequence of the length of the time axis.   *)
(* A sequence divided by the mean of a window is the record of the values  *)
(* and of the window.                                                      *)
(***************************************************************************)
EXTENDS Integers, Sequences, FiniteSets, TLC

VARIABLES unit, refType, VF, Beta, Step, pc, call, frame, result, hist

vars == <<unit, refType, VF, Beta, Step, pc, call, frame, result, hist>>

config == <<unit, refType, VF, Beta, Step>>

-----------------------------------------------------------------------------
(* Bounds and input domains *)

MaxLen == 2

NumCallers == 2

Callers == 1..NumCallers

Owner == {1}

-----------------------------------------------------------------------------
(* Reals as rationals *)

Rat(n) == <<n, 1>>

RatEq(a, b) == a[1] * b[2] = b[1] * a[2]

RatLeq(a, b) == a[1] * b[2] <= b[1] * a[2]

RatLt(a, b) == a[1] * b[2] < b[1] * a[2]

RatNeg(a) == <<0 - a[1], a[2]>>

RatAbs(a) == IF a[1] < 0 THEN RatNeg(a) ELSE a

RatDiv(a, b) == IF b[1] < 0 THEN <<0 - (a[1] * b[2]), 0 - (a[2] * b[1])>>
                ELSE <<a[1] * b[2], a[2] * b[1]>>

(* Complex samples *)

Conj(z) == <<z[1], 0 - z[2]>>

IAbs(n) == IF n < 0 THEN 0 - n ELSE n

ISqrt(n, hi) == CHOOSE k \in 0..hi : k * k <= n /\ (k + 1) * (k + 1) > n

Abs(z) == ISqrt(z[1] * z[1] + z[2] * z[2], IAbs(z[1]) + IAbs(z[2]))

Reverse(s) == [i \in 1..Len(s) |-> s[Len(s) + 1 - i]]

RECURSIVE CumSum(_)
CumSum(s) ==
  IF Len(s) <= 1 THEN s
  ELSE LET p == CumSum(SubSeq(s, 1, Len(s) - 1))
       IN  Append(p, <<p[Len(p)][1] + s[Len(s)][1], p[Len(p)][2] + s[Len(s)][2]>>)

AbsSeq(s) == [i \in 1..Len(s) |-> <<Abs(s[i]), 0>>]

Linspace(a, b, M) ==
  IF M = 1 THEN <<Rat(a)>>
  ELSE [i \in 1..M |-> <<a * (M - 1) + (i - 1) * (b - a), M - 1>>]

-----------------------------------------------------------------------------
(* Strings *)

SECONDS == <<115, 101, 99, 111, 110, 100, 115>>

FEET == <<102, 101, 101, 116>>

METERS == <<109, 101, 116, 101, 114, 115>>

Lower(s) == [i \in 1..Len(s) |-> IF s[i] \in 65..90 THEN s[i] + 32 ELSE s[i]]

-----------------------------------------------------------------------------
(* Arguments a caller can pass to a setter: a string, a number, or nan *)

StrArg(s) == [t |-> "str", v |-> s]

NumArg(n, d) == [t |-> "num", v |-> <<n, d>>]

NanArg == [t |-> "nan", v |-> <<0, 1>>]

UnitArgs == {StrArg(SECONDS), StrArg(FEET), StrArg(<<77, 101, 116, 101, 114, 115>>),
             StrArg(<<109, 105, 108, 101, 115>>), NumArg(5, 1)}

VFArgs == {NumArg(1, 2), NumArg(0 - 1, 2), NumArg(1, 1), NumArg(0, 1), NumArg(3, 2),
           NumArg(0 - 2, 1), NanArg, StrArg(FEET)}

BetaArgs == {NumArg(0, 1), NumArg(6, 1), NumArg(0 - 1, 1), NanArg, StrArg(FEET)}

RefArgs == {NumArg(1, 1), NumArg(2, 1), NumArg(3, 1), NumArg(0, 1), NanArg, StrArg(FEET)}

-----------------------------------------------------------------------------
(* Records kept per caller *)

NoScale == <<>>

NoX0 == [T |-> <<>>, mul |-> 1, div |-> 1]

NoX1 == [vals |-> <<>>, scale |-> NoScale, stepScale |-> NoScale]

EmptyFrame == [X |-> <<>>, F |-> <<0, 0>>, freq |-> <<>>, time |-> <<>>, Xext |-> <<>>,
               window |-> NoScale, resp |-> <<>>, kstep |-> 0, x0 |-> NoX0, x1 |-> NoX1,
               tsRet |-> "idle"]

NoArg == [t |-> "none", v |-> <<>>]

NoCall == [op |-> "none", arg |-> NoArg, cfg |-> <<SECONDS, 1, Rat(1), Rat(0), 0>>,
           afterFailedStep |-> FALSE]

Pending == [status |-> "none", err |-> "", x0 |-> NoX0, x1 |-> NoX1]

Ok(x0, x1) == [status |-> "ok", err |-> "", x0 |-> x0, x1 |-> x1]

Raised(e) == [status |-> "raised", err |-> e, x0 |-> NoX0, x1 |-> NoX1]

-----------------------------------------------------------------------------
(* __init__ *)

Init ==
  /\ unit = SECONDS
  /\ refType = 1
  /\ VF = Rat(1)
  /\ Beta = Rat(0)
  /\ Step = 0
  /\ pc = [c \in Callers |-> "idle"]
  /\ call = [c \in Callers |-> NoCall]
  /\ frame = [c \in Callers |-> EmptyFrame]
  /\ result = [c \in Callers |-> Pending]
  /\ hist = [extToggle |-> FALSE, overlap |-> FALSE, stepRaised |-> FALSE]

(* hist records what has happened to the object so far: toggleStep was     *)
(* called from outside, a caller entered a method while another caller was *)
(* inside one, an exception left a lowpass_step.                           *)
(*                                                                         *)
(* A caller enters a public method.  The argument of a setter and the       *)
(* configuration at entry are recorded, and whether the caller's previous   *)
(* call was a lowpass_step, entered with Step = 0, in which the kernel      *)
(* raised.  The locals of a call are gone when it returns or raises.        *)
Enter(c, op, arg) ==
  /\ pc[c] = "idle"
  /\ call' = [call EXCEPT ![c] =
                [op |-> op, arg |-> arg, cfg |-> config,
                 afterFailedStep |-> /\ call[c].op = "lowpass_step"
                                     /\ call[c].cfg[5] = 0
                                     /\ result[c].status = "raised"
                                     /\ result[c].err = "kernel"]]
  /\ hist' = [hist EXCEPT !.extToggle = @ \/ op = "toggleStep",
                          !.overlap = @ \/ \E d \in Callers \ {c} : pc[d] # "idle"]

(* An exception leaves the method of caller c; hist records whether one    *)
(* has ever left a lowpass_step.                                           *)
Raise(c, e) ==
  /\ pc' = [pc EXCEPT ![c] = "idle"]
  /\ result' = [result EXCEPT ![c] = Raised(e)]
  /\ frame' = [frame EXCEPT ![c] = EmptyFrame]
  /\ hist' = [hist EXCEPT !.stepRaised = @ \/ call[c].op = "lowpass_step"]

-----------------------------------------------------------------------------
(* Setters *)

UnitOf(x) ==
  IF x = SECONDS THEN SECONDS
  ELSE IF x = FEET THEN FEET
  ELSE IF x = METERS THEN METERS
  ELSE SECONDS

setUnit(c, str) ==
  /\ Enter(c, "setUnit", str)
  /\ IF str.t = "str"
     THEN /\ unit' = UnitOf(Lower(str.v))
          /\ result' = [result EXCEPT ![c] = Ok(NoX0, NoX1)]
     ELSE /\ unit' = unit
          /\ result' = [result EXCEPT ![c] = Raised("AttributeError")]
  /\ frame' = [frame EXCEPT ![c] = EmptyFrame]
  /\ UNCHANGED <<refType, VF, Beta, Step, pc>>

(* setVF without its upper limit *)
VFAccepted_NoUpper(velfac) == velfac.t = "num" /\ RatLt(Rat(0), velfac.v)

(* setVF testing the magnitude only *)
VFAccepted_NoSign(velfac) ==
  /\ velfac.t = "num" /\ RatLeq(RatAbs(velfac.v), Rat(1))
  /\ velfac.t = "num" /\ RatLt(Rat(0), RatAbs(velfac.v))

VFAccepted(velfac) ==
  /\ velfac.t = "num" /\ RatLeq(RatAbs(velfac.v), Rat(1))
  /\ velfac.t = "num" /\ RatLt(Rat(0), velfac.v)

setVF(c, velfac) ==
  /\ Enter(c, "setVF", velfac)
  /\ IF velfac.t = "str"
     THEN /\ VF' = VF
          /\ result' = [result EXCEPT ![c] = Raised("TypeError")]
     ELSE /\ VF' = IF VFAccepted(velfac) THEN velfac.v ELSE Rat(1)
          /\ result' = [result EXCEPT ![c] = Ok(NoX0, NoX1)]
  /\ frame' = [frame EXCEPT ![c] = EmptyFrame]
  /\ UNCHANGED <<unit, refType, Beta, Step, pc>>

(* setBeta storing every number *)
BetaAccepted_Any(B) == B.t = "num"

BetaAccepted(B) == B.t = "num" /\ RatLeq(Rat(0), B.v)

setBeta(c, B) ==
  /\ Enter(c, "setBeta", B)
  /\ IF B.t = "str"
     THEN /\ Beta' = Beta
          /\ result' = [result EXCEPT ![c] = Raised("TypeError")]
     ELSE /\ Beta' = IF BetaAccepted(B) THEN B.v ELSE Rat(0)
          /\ result' = [result EXCEPT ![c] = Ok(NoX0, NoX1)]
  /\ frame' = [frame EXCEPT ![c] = EmptyFrame]
  /\ UNCHANGED <<unit, refType, VF, Step, pc>>

RefTypeOf(reflection) ==
  IF reflection.t = "num" /\ RatEq(reflection.v, Rat(1)) THEN reflection.v[1]
  ELSE IF reflection.t = "num" /\ RatEq(reflection.v, Rat(2)) THEN reflection.v[1]
  ELSE 1

setRefType(c, reflection) ==
  /\ Enter(c, "setRefType", reflection)
  /\ refType' = RefTypeOf(reflection)
  /\ result' = [result EXCEPT ![c] = Ok(NoX0, NoX1)]
  /\ frame' = [frame EXCEPT ![c] = EmptyFrame]
  /\ UNCHANGED <<unit, VF, Beta, Step, pc>>

-----------------------------------------------------------------------------
(* toggleStep, one step per read or write of self.Step *)

toggleStep(c) ==
  /\ Enter(c, "toggleStep", NoArg)
  /\ pc' = [pc EXCEPT ![c] = "ts_if1"]
  /\ frame' = [frame EXCEPT ![c] = EmptyFrame]
  /\ result' = [result EXCEPT ![c] = Pending]
  /\ UNCHANGED config

(* The caller's position after toggleStep returns to where it was called. *)
AfterToggle(c) ==
  IF frame[c].tsRet = "idle"
  THEN /\ pc' = [pc EXCEPT ![c] = "idle"]
       /\ result' = [result EXCEPT ![c] = Ok(NoX0, NoX1)]
       /\ frame' = [frame EXCEPT ![c] = EmptyFrame]
  ELSE /\ pc' = [pc EXCEPT ![c] = frame[c].tsRet]
       /\ result' = result
       /\ frame' = frame

ts_if1(c) ==
  /\ pc[c] = "ts_if1"
  /\ pc' = [pc EXCEPT ![c] = IF Step = 1 THEN "ts_set0" ELSE "ts_elif0"]
  /\ UNCHANGED <<config, call, frame, result, hist>>

ts_set0(c) ==
  /\ pc[c] = "ts_set0"
  /\ Step' = 0
  /\ AfterToggle(c)
  /\ UNCHANGED <<unit, refType, VF, Beta, call, hist>>

ts_elif0(c) ==
  /\ pc[c] = "ts_elif0"
  /\ IF Step = 0
     THEN /\ pc' = [pc EXCEPT ![c] = "ts_set1"]
          /\ result' = result
          /\ frame' = frame
     ELSE AfterToggle(c)
  /\ UNCHANGED <<config, call, hist>>

ts_set1(c) ==
  /\ pc[c] = "ts_set1"
  /\ Step' = 1
  /\ AfterToggle(c)
  /\ UNCHANGED <<unit, refType, VF, Beta, call, hist>>

-----------------------------------------------------------------------------
(* Inputs of the transforms.  The samples, and the sums of the kernel's    *)
(* samples, have integer magnitudes, so that Abs is exact on them.  A      *)
(* spectrum may be empty: bandpass then fails at line 64 and               *)
(* lowpass_impulse at line 112 (IndexError).                               *)

SpectrumVals == {<<3, 4>>, <<0, 0 - 2>>}

Spectra == UNION {[1..n -> SpectrumVals] : n \in 0..MaxLen}

Sweeps == {<<0, 3>>, <<1, 4>>}

TimeSweep == <<0, 1>>

ResponseVals == {<<3, 4>>, <<0 - 6, 0 - 8>>}

Responses(M) == [1..M -> ResponseVals]

-----------------------------------------------------------------------------
(* Axis scaling *)

scaleFreq(F) ==
  IF unit = SECONDS THEN F
  ELSE [i \in 1..Len(F) |-> RatDiv(F[i], VF)]

scaleTimeAxis(T) ==
  IF unit = SECONDS THEN [T |-> T, mul |-> 1, div |-> refType]
  ELSE IF unit = FEET THEN [T |-> T, mul |-> 983570000, div |-> refType]
  ELSE IF unit = METERS THEN [T |-> T, mul |-> 299790000, div |-> refType]
  ELSE [T |-> T, mul |-> 1, div |-> 1]

(* x/scale, the magnitude forgotten *)
Compensate_NoAbs(x, window) == [vals |-> x, scale |-> window, stepScale |-> NoScale]

(* abs(x)/scale: the magnitudes, to be divided by the mean of the window *)
Compensate(x, window) == [vals |-> AbsSeq(x), scale |-> window, stepScale |-> NoScale]

Raw(x) == [vals |-> x, scale |-> NoScale, stepScale |-> NoScale]

-----------------------------------------------------------------------------
(* bandpass *)

bandpass(c, X, F) ==
  /\ Enter(c, "bandpass", NoArg)
  /\ IF Len(X) = 0
     THEN /\ pc' = pc
          /\ frame' = [frame EXCEPT ![c] = EmptyFrame]
          /\ result' = [result EXCEPT ![c] = Raised("IndexError")]
     ELSE /\ pc' = [pc EXCEPT ![c] = "bp_kernel"]
          /\ frame' = [frame EXCEPT ![c] =
                         [EmptyFrame EXCEPT !.X = X, !.F = F,
                            !.freq = scaleFreq(Linspace(F[1], F[2], Len(X))),
                            !.time = Linspace(TimeSweep[1], TimeSweep[2], Len(X)),
                            !.window = <<Len(X), Beta>>,
                            !.Xext = X]]
          /\ result' = [result EXCEPT ![c] = Pending]
  /\ UNCHANGED config

bp_kernel_return(c, r) ==
  /\ pc[c] = "bp_kernel"
  /\ pc' = [pc EXCEPT ![c] = "bp_post"]
  /\ frame' = [frame EXCEPT ![c].resp = r, ![c].kstep = Step]
  /\ UNCHANGED <<config, call, result, hist>>

bp_kernel_raise(c) ==
  /\ pc[c] = "bp_kernel"
  /\ Raise(c, "kernel")
  /\ UNCHANGED <<config, call>>

bp_post(c) ==
  /\ pc[c] = "bp_post"
  /\ LET x1 == Compensate(frame[c].resp, frame[c].window)
         x0 == scaleTimeAxis(frame[c].time)
     IN  result' = [result EXCEPT ![c] = Ok(x0, x1)]
  /\ frame' = [frame EXCEPT ![c] = EmptyFrame]
  /\ pc' = [pc EXCEPT ![c] = "idle"]
  /\ UNCHANGED <<config, call, hist>>

-----------------------------------------------------------------------------
(* lowpass_impulse *)

NegFreq(freq) == [i \in 1..Len(freq) |-> RatNeg(Reverse(freq)[i])]

ExtendFreq(freq) == NegFreq(freq) \o (<<Rat(0)>> \o freq)

(* the negative half reversed but not conjugated *)
NegX_NoConj(X) == Reverse(X)

NegX(X) == Reverse([i \in 1..Len(X) |-> Conj(X[i])])

ExtendX(X) == NegX(X) \o (<<<<Abs(X[1]), 0>>>> \o X)

lowpass_impulse(c, X, F) ==
  /\ Enter(c, "lowpass_impulse", NoArg)
  /\ pc' = [pc EXCEPT ![c] = "li_prep"]
  /\ frame' = [frame EXCEPT ![c] = [EmptyFrame EXCEPT !.X = X, !.F = F]]
  /\ result' = [result EXCEPT ![c] = Pending]
  /\ UNCHANGED config

li_prep(c) ==
  /\ pc[c] = "li_prep"
  /\ LET X == frame[c].X
         M == Len(X)
         F == frame[c].F
     IN  IF M = 0
         THEN Raise(c, "IndexError")
         ELSE /\ pc' = [pc EXCEPT ![c] = "li_kernel"]
              /\ frame' = [frame EXCEPT
                             ![c].freq = scaleFreq(ExtendFreq(Linspace(F[1], F[2], M))),
                             ![c].time = Linspace(TimeSweep[1], TimeSweep[2], M),
                             ![c].Xext = ExtendX(X),
                             ![c].window = <<2 * M + 1, Beta>>]
              /\ result' = result
              /\ hist' = hist
  /\ UNCHANGED <<config, call>>

li_kernel_return(c, r) ==
  /\ pc[c] = "li_kernel"
  /\ pc' = [pc EXCEPT ![c] = "li_if0"]
  /\ frame' = [frame EXCEPT ![c].resp = r, ![c].kstep = Step, ![c].x1 = Raw(r)]
  /\ UNCHANGED <<config, call, result, hist>>

(* a kernel failure that puts self.Step back to its value at entry *)
li_kernel_raise_Restore(c) ==
  /\ pc[c] = "li_kernel"
  /\ Raise(c, "kernel")
  /\ Step' = call[c].cfg[5]
  /\ UNCHANGED <<unit, refType, VF, Beta, call>>

li_kernel_raise(c) ==
  /\ pc[c] = "li_kernel"
  /\ Raise(c, "kernel")
  /\ UNCHANGED <<config, call>>

li_if0(c) ==
  /\ pc[c] = "li_if0"
  /\ IF Step = 0
     THEN /\ pc' = [pc EXCEPT ![c] = "li_scale"]
          /\ frame' = [frame EXCEPT ![c].x1 = Compensate(frame[c].resp, frame[c].window)]
     ELSE /\ pc' = [pc EXCEPT ![c] = "li_elif1"]
          /\ frame' = frame
  /\ UNCHANGED <<config, call, result, hist>>

(* the step branch that forgets to flip self.Step back *)
li_elif1_NoToggle(c) ==
  /\ pc[c] = "li_elif1"
  /\ pc' = [pc EXCEPT ![c] = "li_scale"]
  /\ UNCHANGED <<config, call, frame, result, hist>>

li_elif1(c) ==
  /\ pc[c] = "li_elif1"
  /\ IF Step = 1
     THEN /\ pc' = [pc EXCEPT ![c] = "ts_if1"]
          /\ frame' = [frame EXCEPT ![c].tsRet = "li_scale"]
     ELSE /\ pc' = [pc EXCEPT ![c] = "li_scale"]
          /\ frame' = frame
  /\ UNCHANGED <<config, call, result, hist>>

li_scale(c) ==
  /\ pc[c] = "li_scale"
  /\ LET x0 == scaleTimeAxis(frame[c].time)
     IN  IF call[c].op = "lowpass_step"
         THEN /\ pc' = [pc EXCEPT ![c] = "ls_post"]
              /\ result' = result
              /\ frame' = [frame EXCEPT ![c].x0 = x0]
         ELSE /\ pc' = [pc EXCEPT ![c] = "idle"]
              /\ result' = [result EXCEPT ![c] = Ok(x0, frame[c].x1)]
              /\ frame' = [frame EXCEPT ![c] = EmptyFrame]
  /\ UNCHANGED <<config, call, hist>>

-----------------------------------------------------------------------------
(* lowpass_step *)

lowpass_step(c, X, F) ==
  /\ Enter(c, "lowpass_step", NoArg)
  /\ pc' = [pc EXCEPT ![c] = "ts_if1"]
  /\ frame' = [frame EXCEPT ![c] = [EmptyFrame EXCEPT !.X = X, !.F = F, !.tsRet = "li_prep"]]
  /\ result' = [result EXCEPT ![c] = Pending]
  /\ UNCHANGED config

Accumulate(lowpass, M) ==
  [vals |-> AbsSeq(CumSum(lowpass.vals)), scale |-> lowpass.scale, stepScale |-> <<2 * M + 1, M>>]

ls_post(c) ==
  /\ pc[c] = "ls_post"
  /\ LET x1 == Accumulate(frame[c].x1, Len(frame[c].X))
     IN  result' = [result EXCEPT ![c] = Ok(frame[c].x0, x1)]
  /\ pc' = [pc EXCEPT ![c] = "idle"]
  /\ frame' = [frame EXCEPT ![c] = EmptyFrame]
  /\ UNCHANGED <<config, call, hist>>

-----------------------------------------------------------------------------
(* Specifications *)

CallerNext(c, XS, FS, RV) ==
  \/ \E a \in UnitArgs : setUnit(c, a)
  \/ \E a \in VFArgs : setVF(c, a)
  \/ \E a \in BetaArgs : setBeta(c, a)
  \/ \E a \in RefArgs : setRefType(c, a)
  \/ toggleStep(c)
  \/ ts_if1(c)
  \/ ts_set0(c)
  \/ ts_elif0(c)
  \/ ts_set1(c)
  \/ \E X \in XS, F \in FS : bandpass(c, X, F)
  \/ \E r \in [1..Len(frame[c].X) -> RV] : bp_kernel_return(c, r)
  \/ bp_kernel_raise(c)
  \/ bp_post(c)
  \/ \E X \in XS, F \in FS : lowpass_impulse(c, X, F)
  \/ li_prep(c)
  \/ \E r \in [1..Len(frame[c].X) -> RV] : li_kernel_return(c, r)
  \/ li_kernel_raise(c)
  \/ li_if0(c)
  \/ li_elif1(c)
  \/ li_scale(c)
  \/ \E X \in XS, F \in FS : lowpass_step(c, X, F)
  \/ ls_post(c)

(* One caller owns the configuration object. *)
Next == \E c \in Owner : CallerNext(c, Spectra, Sweeps, ResponseVals)

Spec == Init /\ [][Next]_vars

(* Several callers share one configuration object. *)
SharedSpectra == {<<<<3, 4>>>>}

SharedSweeps == {<<0, 3>>}

SharedResponseVals == {<<3, 4>>}

(* The calls that read or write self.Step, interleaved at each such access. *)
SharedNext(c, XS, FS, RV) ==
  \/ toggleStep(c)
  \/ ts_if1(c)
  \/ ts_set0(c)
  \/ ts_elif0(c)
  \/ ts_set1(c)
  \/ \E X \in XS, F \in FS : lowpass_impulse(c, X, F)
  \/ li_prep(c)
  \/ \E r \in [1..Len(frame[c].X) -> RV] : li_kernel_return(c, r)
  \/ li_kernel_raise(c)
  \/ li_if0(c)
  \/ li_elif1(c)
  \/ li_scale(c)
  \/ \E X \in XS, F \in FS : lowpass_step(c, X, F)
  \/ ls_post(c)

NextShared == \E c \in Callers : SharedNext(c, SharedSpectra, SharedSweeps, SharedResponseVals)

SpecShared == Init /\ [][NextShared]_vars

-----------------------------------------------------------------------------
(* Properties *)

Returned(c, op) == pc[c] = "idle" /\ call[c].op = op /\ result[c].status = "ok"

KernelRaised(c, op) ==
  pc[c] = "idle" /\ call[c].op = op /\ result[c].status = "raised" /\ result[c].err = "kernel"

(* z is the magnitude of the complex sample w, as a real sample *)
IsMagnitude(z, w) == z[2] = 0 /\ z[1] >= 0 /\ z[1] * z[1] = w[1] * w[1] + w[2] * w[2]

(* C1: whenever lowpass_step returns normally to its single caller,        *)
(* self.Step is 0, whatever the configuration was when the call started.   *)
C1_StepZeroAfterLowpassStep ==
  \A c \in Owner : Returned(c, "lowpass_step") => Step = 0

(* lowpass_step has returned from a call entered with Step = 1, after a    *)
(* direct toggleStep.                                                      *)
C1_Witness ==
  \E c \in Owner : Returned(c, "lowpass_step") /\ call[c].cfg[5] = 1 /\ hist.extToggle

(* C2: every field of the configuration is always within its domain: unit  *)
(* is seconds, feet or meters, refType is 1 or 2, 0 < VF <= 1, Beta >= 0,  *)
(* and Step is 0 or 1.                                                     *)
C2_ConfigDomain ==
  /\ unit \in {SECONDS, FEET, METERS}
  /\ refType \in {1, 2}
  /\ RatLt(Rat(0), VF) /\ RatLeq(VF, Rat(1))
  /\ RatLeq(Rat(0), Beta)
  /\ Step \in {0, 1}

(* setBeta has just been given a negative value over a Beta of 6, with the *)
(* other fields away from their defaults.                                  *)
C2_Witness ==
  /\ unit = METERS /\ refType = 2 /\ VF = <<1, 2>> /\ Beta = Rat(0) /\ Step = 1
  /\ \E c \in Owner : /\ Returned(c, "setBeta")
                      /\ call[c].arg = NumArg(0 - 1, 1)
                      /\ call[c].cfg[4] = <<6, 1>>

(* C3, as claimed: setVF(v) stores v if and only if 0 < |v| <= 1, and sets *)
(* VF to 1 for every other v.                                              *)
C3_Original ==
  \A c \in Owner : Returned(c, "setVF") =>
    LET v == call[c].arg
    IN  IF v.t = "num" /\ RatLt(Rat(0), RatAbs(v.v)) /\ RatLeq(RatAbs(v.v), Rat(1))
        THEN VF = v.v
        ELSE VF = Rat(1)

(* C3, amended: for a number v, setVF(v) stores v if and only if           *)
(* 0 < v <= 1, and sets VF to 1 for every other number.                    *)
C3_SetVFStoresIffPositiveAtMostOne ==
  \A c \in Owner : Returned(c, "setVF") =>
    LET v == call[c].arg
    IN  IF v.t = "num" /\ RatLt(Rat(0), v.v) /\ RatLeq(v.v, Rat(1))
        THEN VF = v.v
        ELSE VF = Rat(1)

(* setVF(1/2) has stored 1/2 over a VF of 1.                               *)
C3_Witness ==
  \E c \in Owner : /\ Returned(c, "setVF") /\ call[c].arg = NumArg(1, 2)
                   /\ call[c].cfg[3] = Rat(1) /\ VF = <<1, 2>>

(* C4: for every v <= 0, setVF(v) leaves VF equal to 1, whatever VF was.   *)
C4_NonPositiveVFGivesOne ==
  \A c \in Owner :
    (Returned(c, "setVF") /\ call[c].arg.t = "num" /\ RatLeq(call[c].arg.v, Rat(0)))
      => VF = Rat(1)

(* setVF(-1/2) has returned on a configuration whose VF was 1/2.           *)
C4_Witness ==
  \E c \in Owner : /\ Returned(c, "setVF") /\ call[c].arg = NumArg(0 - 1, 2)
                   /\ call[c].cfg[3] = <<1, 2>>

(* C5: every setter returns normally for every argument, a value of the    *)
(* wrong type included, and its field then holds the accepted value or the *)
(* default (seconds, 1, 0, 1).                                             *)
C5_SettersTotal ==
  \A c \in Owner :
    (pc[c] = "idle" /\ call[c].op \in {"setUnit", "setVF", "setBeta", "setRefType"}) =>
      /\ result[c].status = "ok"
      /\ call[c].op = "setUnit" => unit \in {Lower(call[c].arg.v), SECONDS}
      /\ call[c].op = "setVF" => VF \in {call[c].arg.v, Rat(1)}
      /\ call[c].op = "setBeta" => Beta \in {call[c].arg.v, Rat(0)}
      /\ call[c].op = "setRefType" => refType \in {call[c].arg.v[1], 1}

(* C6: for a spectrum X of length M >= 1, the extended spectrum handed to  *)
(* the kernel has length 2M+1, its middle entry is |X[0]|, and every other *)
(* entry is the conjugate of its mirror image; the extended frequency axis *)
(* has length 2M+1, a middle entry 0, and is antisymmetric about it.       *)
C6_HermitianExtension ==
  \A c \in Owner :
    (pc[c] = "li_kernel" /\ Len(frame[c].X) >= 1) =>
      LET M == Len(frame[c].X)
          E == frame[c].Xext
          f == frame[c].freq
      IN  /\ Len(E) = 2 * M + 1
          /\ IsMagnitude(E[M + 1], frame[c].X[1])
          /\ \A i \in 1..(2 * M + 1) :
               i # M + 1 => /\ E[i][1] = E[2 * M + 2 - i][1]
                            /\ E[i][2] = 0 - E[2 * M + 2 - i][2]
          /\ Len(f) = 2 * M + 1
          /\ f[M + 1][1] = 0
          /\ \A i \in 1..(2 * M + 1) :
               f[i][1] * f[2 * M + 2 - i][2] = 0 - (f[2 * M + 2 - i][1] * f[i][2])

(* An extension of a spectrum of two different samples with a non-zero     *)
(* imaginary part, on a frequency axis divided by a VF of 1/2.             *)
C6_Witness ==
  \E c \in Owner : /\ pc[c] = "li_kernel"
                   /\ Len(frame[c].X) >= 2
                   /\ frame[c].X[1] # frame[c].X[2]
                   /\ frame[c].X[2][2] # 0
                   /\ unit = FEET /\ VF = <<1, 2>>
                   /\ frame[c].F[1] # 0

(* C7: lowpass_impulse, called directly, branches on self.Step as it is    *)
(* after the kernel returns.  With Step = 0 it returns the magnitudes of   *)
(* the kernel response, divided by the mean of the window of length 2M+1,  *)
(* and the configuration is as at entry.  With Step = 1 it returns the     *)
(* kernel response as it is, Step becomes 0 and the other fields are as at *)
(* entry.                                                                  *)
C7_ImpulseBranch ==
  [][\A c \in Owner :
       (call[c].op = "lowpass_impulse" /\ pc[c] = "li_scale" /\ pc'[c] = "idle") =>
         LET r == frame[c].resp
             x1 == result'[c].x1
         IN  /\ result'[c].status = "ok"
             /\ Len(x1.vals) = Len(r)
             /\ x1.stepScale = NoScale
             /\ frame[c].kstep = 0 =>
                  /\ \A i \in 1..Len(r) : IsMagnitude(x1.vals[i], r[i])
                  /\ x1.scale = <<2 * Len(frame[c].X) + 1, call[c].cfg[4]>>
                  /\ config' = call[c].cfg
             /\ frame[c].kstep = 1 =>
                  /\ x1.vals = r
                  /\ x1.scale = NoScale
                  /\ Step' = 0
                  /\ <<unit', refType', VF', Beta'>>
                       = <<call[c].cfg[1], call[c].cfg[2], call[c].cfg[3], call[c].cfg[4]>>
                  /\ call[c].cfg[5] = 1]_vars

(* A direct lowpass_impulse call entered with Step = 1 has returned the    *)
(* unscaled response of a kernel and left Step = 0.                        *)
C7_Witness ==
  \E c \in Owner : /\ Returned(c, "lowpass_impulse")
                   /\ call[c].cfg[5] = 1
                   /\ Len(result[c].x1.vals) >= 2
                   /\ result[c].x1.scale = NoScale
                   /\ Step = 0

(* C8: in every lowpass_step call the flip at entry leaves Step = 1, the   *)
(* inner lowpass_impulse runs with Step = 1, applies neither magnitude nor *)
(* scale and flips Step back to 0, so that the cumulative sum is taken     *)
(* over the unscaled kernel response.                                      *)
C8_StepAlwaysUnscaled ==
  \A c \in Owner :
    call[c].op = "lowpass_step" =>
      /\ pc[c] \in {"li_prep", "li_kernel", "li_if0", "li_elif1"} => Step = 1
      /\ pc[c] = "ls_post" => /\ Step = 0
                              /\ frame[c].x1.scale = NoScale
                              /\ frame[c].x1.vals = frame[c].resp

(* C9: the states in which the flag is corrupted.  A direct                *)
(* lowpass_impulse call is in its unscaled branch; the inner call of a     *)
(* lowpass_step has taken the scaled branch; every caller's lowpass call   *)
(* has returned and Step is 1.                                             *)
DirectUnscaled(c) ==
  call[c].op = "lowpass_impulse" /\ pc[c] \in {"ts_if1", "ts_set0", "ts_elif0", "ts_set1"}

InnerScaled(c) ==
  call[c].op = "lowpass_step" /\ pc[c] \in {"li_scale", "ls_post"} /\ frame[c].x1.scale # NoScale

AllReturnedStepOne ==
  /\ Step = 1
  /\ \A c \in Callers : pc[c] = "idle" /\ result[c].status = "ok"
                        /\ call[c].op \in {"lowpass_impulse", "lowpass_step"}

(* C9: while one caller at a time uses the configuration and toggleStep is *)
(* not called from outside, none of the corrupted states is reachable.     *)
C9_SingleOwnerNeverCorrupted ==
  (~hist.overlap /\ ~hist.extToggle) =>
    /\ \A c \in Callers : ~DirectUnscaled(c) /\ ~InnerScaled(c)
    /\ ~AllReturnedStepOne

(* C9, for callers that do interleave: each of the three corrupted states  *)
(* is reached in SpecShared with no outside toggleStep and no exception,   *)
(* so that each of these is violated as an invariant of SpecShared.        *)
Undisturbed == ~hist.extToggle /\ ~hist.stepRaised

C9_NoDirectUnscaled == Undisturbed => \A c \in Callers : ~DirectUnscaled(c)

C9_NoInnerScaled == Undisturbed => \A c \in Callers : ~InnerScaled(c)

C9_NoAllReturnedStepOne == Undisturbed => ~AllReturnedStepOne

(* C9, when in addition no exception has left a lowpass_step.              *)
C9_SingleOwnerNoFailure ==
  (~hist.overlap /\ Undisturbed) =>
    /\ \A c \in Callers : ~DirectUnscaled(c) /\ ~InnerScaled(c)
    /\ ~AllReturnedStepOne

(* C10: a kernel failure in a lowpass_step entered with Step = 0 reaches   *)
(* the caller with Step = 1 and the other fields as at entry; the direct   *)
(* lowpass_impulse call made next then takes the unscaled branch; a kernel *)
(* failure in bandpass or in a direct lowpass_impulse leaves the           *)
(* configuration as at entry.                                              *)
C10_KernelFailure ==
  \A c \in Owner :
    /\ (KernelRaised(c, "lowpass_step") /\ call[c].cfg[5] = 0) =>
         /\ Step = 1
         /\ <<unit, refType, VF, Beta>>
              = <<call[c].cfg[1], call[c].cfg[2], call[c].cfg[3], call[c].cfg[4]>>
    /\ (call[c].op = "lowpass_impulse" /\ call[c].afterFailedStep) =>
         /\ call[c].cfg[5] = 1
         /\ pc[c] = "li_scale" => /\ frame[c].x1.scale = NoScale
                                  /\ frame[c].x1.vals = frame[c].resp
         /\ Returned(c, "lowpass_impulse") => result[c].x1.scale = NoScale
    /\ (KernelRaised(c, "bandpass") \/ KernelRaised(c, "lowpass_impulse")) =>
         config = call[c].cfg

(* The direct lowpass_impulse call made right after such a failure has     *)
(* returned.                                                               *)
C10_Witness ==
  \E c \in Owner : /\ Returned(c, "lowpass_impulse")
                   /\ call[c].afterFailedStep
                   /\ ~hist.extToggle

====
